---- MODULE Spec2Model ----
(***************************************************************************)
(* A model of the protocol handler of src/index.js: the scheme registry    *)
(* (ProtocolHandler._handlers, a Map), its blacklist, registration         *)
(* (protocol), resolution (resolve, through p-try) and the Express         *)
(* middleware.  Strings are sequences of one-character strings, so that    *)
(* normalize, isValidScheme, getProtocol and decodeURIComponent are        *)
(* computed character by character as the code and its libraries do.       *)
(***************************************************************************)
EXTENDS Naturals, Sequences, FiniteSets

VARIABLES
  blacklist,      \* this._blacklist
  handlers,       \* this._handlers
  calls,          \* the resolve() calls and middleware requests made so far
  last,           \* the scheme and the outcome of the latest protocol() call
  registrations   \* the scheme and resolver of each protocol() call that returned

vars == <<blacklist, handlers, calls, last, registrations>>

(***************************************************************************)
(* Bounds of the model.                                                    *)
(***************************************************************************)
\* successful protocol() calls when registration alone is explored
MaxRegistrations == 3
\* successful protocol() calls made around resolve() calls and requests
MaxSetup == 2
\* resolve() calls
MaxCalls == 1
\* requests handed to the middleware
MaxRequests == 1
\* resolve() calls in flight together
MaxConcurrent == 2

(***************************************************************************)
(* Characters and strings.                                                 *)
(***************************************************************************)
UPPER == <<"A","B","C","D","E","F","G","H","I","J","K","L","M",
           "N","O","P","Q","R","S","T","U","V","W","X","Y","Z">>

LOWER == <<"a","b","c","d","e","f","g","h","i","j","k","l","m",
           "n","o","p","q","r","s","t","u","v","w","x","y","z">>

Range(s) == {s[i] : i \in DOMAIN s}

AsciiUpper == Range(UPPER)
AsciiLower == Range(LOWER)
AsciiAlpha == AsciiUpper \cup AsciiLower
AsciiDigit == {"0","1","2","3","4","5","6","7","8","9"}

\* the white space of the model's alphabet (String.prototype.trim, and the
\* "C0 control or space" the URL parser strips)
WhiteSpace == {" "}

LowerChar(c) ==
  IF c \in AsciiUpper THEN LOWER[CHOOSE i \in DOMAIN UPPER : UPPER[i] = c] ELSE c

toLowerCase(s) == [i \in DOMAIN s |-> LowerChar(s[i])]

RECURSIVE trimStart(_)
trimStart(s) ==
  IF s # <<>> /\ Head(s) \in WhiteSpace THEN trimStart(Tail(s)) ELSE s

RECURSIVE trimEnd(_)
trimEnd(s) ==
  IF s # <<>> /\ s[Len(s)] \in WhiteSpace
  THEN trimEnd(SubSeq(s, 1, Len(s) - 1))
  ELSE s

trim(s) == trimEnd(trimStart(s))

endsWith(s, t) ==
  Len(s) >= Len(t) /\ SubSeq(s, Len(s) - Len(t) + 1, Len(s)) = t

startsWith(s, t) ==
  Len(s) >= Len(t) /\ SubSeq(s, 1, Len(t)) = t

\* s.replace(/:\/\/$/, ':')
replaceTrailingSlashes(s) ==
  IF endsWith(s, <<":", "/", "/">>) THEN SubSeq(s, 1, Len(s) - 2) ELSE s

\* normalize without its toLowerCase()
normalizeKeepsCase(scheme) == replaceTrailingSlashes(trim(scheme))

\* function normalize(scheme = '')
normalize(scheme) == replaceTrailingSlashes(trim(toLowerCase(scheme)))

\* the character class [a-z0-9+] of isValidScheme
SchemeChar == AsciiLower \cup AsciiDigit \cup {"+"}

\* the {2,} of isValidScheme
MinSchemeLen == 2

\* isValidScheme with + in place of {2,}
isValidSchemeOneOrMore(str) ==
  /\ Len(str) >= 2
  /\ str[Len(str)] = ":"
  /\ \A i \in 1..(Len(str) - 1) : str[i] \in SchemeChar

\* const isValidScheme = str => /^[a-z0-9+]{2,}:$/.test(str)
isValidScheme(str) ==
  /\ Len(str) >= MinSchemeLen + 1
  /\ str[Len(str)] = ":"
  /\ \A i \in 1..(Len(str) - 1) : str[i] \in SchemeChar

(***************************************************************************)
(* Values.  A JavaScript value that may be undefined is a record: Str(s)   *)
(* is the string s, Undefined is undefined.                                *)
(***************************************************************************)
Undefined == [def |-> FALSE, s |-> <<>>]

Str(s) == [def |-> TRUE, s |-> s]

(***************************************************************************)
(* new URL(url).protocol: the scheme states of the URL parser of Node's    *)
(* url module (WHATWG basic URL parser, no base URL).  The URLs of the     *)
(* model have a body (what follows the scheme's colon) of ASCII letters    *)
(* and slashes; for those the parser fails after the scheme only for a     *)
(* special scheme other than file: whose host is empty.                    *)
(***************************************************************************)
SpecialSchemes ==
  { <<"f","t","p">>, <<"f","i","l","e">>, <<"h","t","t","p">>,
    <<"h","t","t","p","s">>, <<"w","s">>, <<"w","s","s">> }

\* scheme state: ASCII alphanumeric, U+002B (+), U+002D (-) or U+002E (.)
URLSchemeChar == AsciiAlpha \cup AsciiDigit \cup {"+", "-", "."}

\* The index of the colon that ends the scheme, 0 when the parser finds none
\* (scheme start state needs an ASCII alpha; any other character before the
\* colon, or the end of input, is "no scheme", a failure without a base URL).
RECURSIVE schemeState(_, _)
schemeState(s, i) ==
  IF i > Len(s) THEN 0
  ELSE IF s[i] = ":" THEN i
  ELSE IF s[i] \in URLSchemeChar THEN schemeState(s, i + 1)
  ELSE 0

schemeEnd(s) ==
  IF s # <<>> /\ s[1] \in AsciiAlpha THEN schemeState(s, 2) ELSE 0

RECURSIVE skipSlashes(_)
skipSlashes(s) ==
  IF s # <<>> /\ Head(s) \in {"/", "\\"} THEN skipSlashes(Tail(s)) ELSE s

\* host state: a special scheme other than file: with an empty host fails
hostMissing(scheme, body) ==
  /\ scheme \in SpecialSchemes
  /\ scheme # <<"f","i","l","e">>
  /\ skipSlashes(body) = <<>>

\* new URL(input): the protocol of the parsed URL, or FALSE in field ok when
\* the constructor throws TypeError (Invalid URL)
parseURL(input) ==
  LET s == trim(input)
      e == schemeEnd(s)
      scheme == toLowerCase(SubSeq(s, 1, e - 1))
      body == SubSeq(s, e + 1, Len(s))
  IN  IF e = 0 \/ hostMissing(scheme, body)
      THEN [ok |-> FALSE, protocol |-> <<>>]
      ELSE [ok |-> TRUE, protocol |-> Append(scheme, ":")]

\* function getProtocol(url): try { return new URL(url).protocol } catch {}
getProtocol(url) ==
  LET u == parseURL(url)
  IN  IF u.ok THEN Str(u.protocol) ELSE Undefined

(***************************************************************************)
(* The registry: a Map from scheme to resolver, kept in insertion order,   *)
(* as a sequence of entries.                                               *)
(***************************************************************************)
MapKeys(m) == [i \in DOMAIN m |-> m[i].key]

MapHas(m, k) == \E i \in DOMAIN m : m[i].key = k

\* Map.prototype.get: the value of key k, "undefined" when k is no key
MapGet(m, k) ==
  IF MapHas(m, k) THEN m[CHOOSE i \in DOMAIN m : m[i].key = k].fn
  ELSE "undefined"

\* set that appends an entry whether or not the key is there
MapSetAppends(m, k, f) == Append(m, [key |-> k, fn |-> f])

\* set that deletes an existing key and appends it anew
MapSetMovesToEnd(m, k, f) ==
  LET kept == {i \in DOMAIN m : m[i].key # k}
      RECURSIVE others(_)
      others(i) ==
        IF i > Len(m) THEN <<>>
        ELSE IF i \in kept THEN <<m[i]>> \o others(i + 1)
        ELSE others(i + 1)
  IN  Append(others(1), [key |-> k, fn |-> f])

\* Map.prototype.set: an existing key keeps its place and takes the new
\* value, a new key is appended
MapSet(m, k, f) ==
  IF MapHas(m, k)
  THEN [i \in DOMAIN m |-> IF m[i].key = k THEN [key |-> k, fn |-> f] ELSE m[i]]
  ELSE Append(m, [key |-> k, fn |-> f])

\* get protocols(): new Set(this._handlers.keys()), in insertion order
protocols == MapKeys(handlers)

(***************************************************************************)
(* Inputs.                                                                 *)
(***************************************************************************)
\* const BLACKLISTED_SCHEMES = ['http:', 'https:']
BLACKLISTED_SCHEMES == <<<<"h","t","t","p",":">>, <<"h","t","t","p","s",":">>>>

\* the blacklist option a handler is constructed with: none, or one that
\* names a scheme isValidScheme rejects (view-source:) and one it accepts
BlacklistOptions ==
  { <<>>, <<<<"v","i","e","w","-","s","o","u","r","c","e",":">>, <<"f","t","p",":">>>> }

\* the scheme argument of protocol()
RawSchemes ==
  { <<"h","t","t","p",":">>,
    <<"H","T","T","P",":","/","/">>,
    <<"H","t","t","p",":">>,
    <<"h","T","T","p","s",":","/","/">>,
    <<" ","h","t","t","p","s",":","/","/"," ">>,
    <<"s","3",":","/","/">>,
    <<"S","3",":">>,
    <<"s","3",":">>,
    <<"g","d","r","i","v","e",":">>,
    <<"f","t","p",":">>,
    <<"i","n","v","a","l","i","d","-","$","c","h","e","m","e",":">>,
    <<"i","n","v","a","l","i","d","-","s","c","h","e","m","e",":","\\","\\">>,
    <<"s","3">>,
    <<"a",":">>,
    <<>>,
    <<"v","i","e","w","-","s","o","u","r","c","e",":">> }

\* the resolvers given to protocol(), told apart by identity
Resolvers == {"f", "g"}

\* what a resolver does when it is invoked: return a string, return a promise
\* of a string, return undefined, return the empty string, throw, return a
\* promise that rejects
Modes == {"sync", "async", "absent", "empty", "throw", "reject"}

\* the url argument of resolve()
URLs ==
  { <<"s","3",":","/","/","d","u","m","m","y","K","e","y">>,
    <<"S","3",":","/","/","d","u","m","m","y","K","e","y">>,
    <<"g","d","r","i","v","e",":","/","/","k">>,
    <<"d","u","m","m","y",":","/","/","u","n","k","n","o","w","n">>,
    <<"h","t","t","p","s",":","/","/","k">>,
    <<"H","T","T","P","S",":","/","/","k">>,
    <<"f","i","l","e",":","/","/","/","f">>,
    <<"f","t","p",":","/","/","k">>,
    <<"h","t","t","p","s",":">>,
    <<"/","/","k">>,
    <<" ","/","/","k">>,
    <<"i","n","v","a","l","i","d","-","$","c","h","e","m","e",":","/","/","x">>,
    <<"i","n","v","a","l","i","d","@","p","r","o","t","o","c","o","l",":","/","/","d","u","m","m","y","K","e","y">>,
    <<>> }

(***************************************************************************)
(* decodeURIComponent.  An escape %XX is decoded through the ASCII table;  *)
(* a % not followed by two hexadecimal digits is malformed (URIError), and *)
(* so is an octet above 0x7F with no continuation octets after it, the     *)
(* only kind the model's queries hold.                                     *)
(***************************************************************************)
\* the printable ASCII characters, 0x20 to 0x7E ("GRAVE" stands for U+0060)
ASCII ==
  << " ","!","\"","#","$","%","&","'","(",")","*","+",",","-",".","/",
     "0","1","2","3","4","5","6","7","8","9",":",";","<","=",">","?",
     "@","A","B","C","D","E","F","G","H","I","J","K","L","M","N","O",
     "P","Q","R","S","T","U","V","W","X","Y","Z","[","\\","]","^","_",
     "GRAVE","a","b","c","d","e","f","g","h","i","j","k","l","m","n","o",
     "p","q","r","s","t","u","v","w","x","y","z","{","|","}","~" >>

HexDigits == <<"0","1","2","3","4","5","6","7","8","9","A","B","C","D","E","F">>

HexLower == <<"0","1","2","3","4","5","6","7","8","9","a","b","c","d","e","f">>

isHex(c) == \E i \in DOMAIN HexDigits : c \in {HexDigits[i], HexLower[i]}

hexValue(c) == (CHOOSE i \in DOMAIN HexDigits : c \in {HexDigits[i], HexLower[i]}) - 1

\* the first and last code of ASCII above, and the first octet that is not a
\* character on its own
FirstPrintable == 32
LastPrintable == 126
FirstNonAscii == 128

\* The decoded characters, or <<"URIError">> in field err.
RECURSIVE decode(_)
decode(s) ==
  IF s = <<>> THEN [err |-> FALSE, s |-> <<>>]
  ELSE IF Head(s) # "%"
  THEN LET r == decode(Tail(s))
       IN  [err |-> r.err, s |-> IF r.err THEN <<>> ELSE <<Head(s)>> \o r.s]
  ELSE IF Len(s) < 3 \/ ~isHex(s[2]) \/ ~isHex(s[3])
  THEN [err |-> TRUE, s |-> <<>>]
  ELSE LET octet == 16 * hexValue(s[2]) + hexValue(s[3])
           r == decode(SubSeq(s, 4, Len(s)))
       IN  IF octet >= FirstNonAscii \/ octet < FirstPrintable \/ octet > LastPrintable
           THEN [err |-> TRUE, s |-> <<>>]
           ELSE [err |-> r.err,
                 s |-> IF r.err THEN <<>>
                       ELSE <<ASCII[octet - FirstPrintable + 1]>> \o r.s]

\* String(undefined), what decodeURIComponent makes of a missing parameter
UndefinedString == <<"u","n","d","e","f","i","n","e","d">>

\* decodeURIComponent(req.query[param])
decodeURIComponent(q) ==
  IF q.def THEN decode(q.s) ELSE [err |-> FALSE, s |-> UndefinedString]

\* req.query[this._param]: the parameter's value, Undefined when it is missing
Queries ==
  { Undefined,
    Str(<<"s","3","%","3","A","%","2","F","%","2","F","d","u","m","m","y","K","e","y">>),
    Str(<<"S","3",":","/","/","k">>),
    Str(<<"u","n","k","n","o","w","n",":","/","/","d","u","m","m","y","K","e","y">>),
    Str(<<"h","t","t","p","s",":","/","/","k">>),
    Str(<<"/","/","k">>),
    Str(<<"i","n","v","a","l","i","d","-","$","c","h","e","m","e",":","/","/","d","u","m","m","y","K","e","y">>),
    Str(<<"%">>),
    Str(<<"s","3",":","/","/","%","E","0">>) }

(***************************************************************************)
(* Promise values and responses.                                           *)
(***************************************************************************)
\* the value undefined
UndefinedValue == [kind |-> "undefined", by |-> "", of |-> <<>>]

\* the (non-empty) string resolver fn returns, or promises, for url
Produced(fn, url) == [kind |-> "string", by |-> fn, of |-> url]

\* the error resolver fn throws, or rejects with, for url
Failure(fn, url) == [kind |-> "error", by |-> fn, of |-> url]

\* the URIError of decodeURIComponent
URIError == [kind |-> "error", by |-> "URIError", of |-> <<>>]

\* the string ''
EmptyString == [kind |-> "string", by |-> "", of |-> <<>>]

\* !value
falsy(v) == v.kind = "undefined" \/ v = EmptyString

NoBody == [text |-> "", errorName |-> "", errorCode |-> ""]

\* no response: a direct resolve() call, or a request not yet answered
NoResponse(kind) ==
  [kind |-> kind, status |-> 0, location |-> UndefinedValue, body |-> NoBody]

StatusBadRequest == 400
StatusFound == 302

\* res.sendStatus(400): the status with its reason phrase as the body
sendStatus(code) ==
  [kind |-> "sendStatus", status |-> code, location |-> UndefinedValue,
   body |-> [text |-> "Bad Request", errorName |-> "", errorCode |-> ""]]

\* res.redirect(url)
redirect(url) ==
  [kind |-> "redirect", status |-> StatusFound, location |-> url, body |-> NoBody]

(***************************************************************************)
(* p-try: pTry(fn) is new Promise(resolve => resolve(fn())), so fn runs at *)
(* once; a value it returns fulfils the promise, an error it throws        *)
(* rejects it, and a promise it returns is adopted and settles later.      *)
(* Here fn is () => handler && handler(url).                               *)
(***************************************************************************)
\* pTry(() => { handler && handler(url); }): the function body returns nothing
pTryDropsResult(handler, url, mode) ==
  IF handler # "undefined" /\ mode = "throw"
  THEN [st |-> "rejected", val |-> Failure(handler, url)]
  ELSE [st |-> "fulfilled", val |-> UndefinedValue]

\* Promise.resolve(fn()): fn runs outside the promise, so an error it throws
\* reaches the caller of resolve
pTryCallsOutside(handler, url, mode) ==
  IF handler = "undefined" THEN [st |-> "fulfilled", val |-> UndefinedValue]
  ELSE IF mode = "sync" THEN [st |-> "fulfilled", val |-> Produced(handler, url)]
  ELSE IF mode = "absent" THEN [st |-> "fulfilled", val |-> UndefinedValue]
  ELSE IF mode = "empty" THEN [st |-> "fulfilled", val |-> EmptyString]
  ELSE IF mode = "throw" THEN [st |-> "thrown", val |-> Failure(handler, url)]
  ELSE [st |-> "pending", val |-> UndefinedValue]

pTry(handler, url, mode) ==
  IF handler = "undefined" THEN [st |-> "fulfilled", val |-> UndefinedValue]
  ELSE IF mode = "sync" THEN [st |-> "fulfilled", val |-> Produced(handler, url)]
  ELSE IF mode = "absent" THEN [st |-> "fulfilled", val |-> UndefinedValue]
  ELSE IF mode = "empty" THEN [st |-> "fulfilled", val |-> EmptyString]
  ELSE IF mode = "throw" THEN [st |-> "rejected", val |-> Failure(handler, url)]
  ELSE [st |-> "pending", val |-> UndefinedValue]

\* the handler resolve() looks up for url
handlerFor(url) ==
  LET protocol == getProtocol(url)
  IN  IF protocol.def THEN MapGet(handlers, protocol.s) ELSE "undefined"

\* resolve(url): the promise it returns (st, val), with the resolver it
\* invoked (fn), how many times it invoked a resolver (invoked), what that
\* resolver does (mode) and the number of registrations made before the
\* call (at)
resolveCall(via, query, url, mode, resp) ==
  LET handler == handlerFor(url)
      p == pTry(handler, url, mode)
  IN  [via |-> via, query |-> query, url |-> Str(url), fn |-> handler,
       invoked |-> IF handler = "undefined" THEN 0 ELSE 1,
       mode |-> IF handler = "undefined" THEN "none" ELSE mode,
       at |-> Len(registrations),
       st |-> p.st, val |-> p.val, resp |-> resp]

(***************************************************************************)
(* The handler after construction.                                         *)
(***************************************************************************)
Init ==
  /\ \E options \in BlacklistOptions : blacklist = BLACKLISTED_SCHEMES \o options
  /\ handlers = <<>>
  /\ calls = <<>>
  /\ last = [scheme |-> <<>>, outcome |-> "none"]
  /\ registrations = <<>>

(***************************************************************************)
(* protocol(scheme, handler).  The two TypeErrors it throws are told apart *)
(* by their message: "Registering handler for ... is not allowed."         *)
(* (BlacklistedProtocol) and "Invalid protocol provided."                  *)
(* (InvalidProtocol); "this" is the normal return.                         *)
(***************************************************************************)
\* a protocol() that tests the scheme as given against the blacklist
protocolTestsRawScheme(scheme, handler) ==
  /\ LET n == normalize(scheme)
     IN  IF scheme \in Range(blacklist)
         THEN /\ last' = [scheme |-> scheme, outcome |-> "BlacklistedProtocol"]
              /\ UNCHANGED <<handlers, registrations>>
         ELSE IF ~isValidScheme(n)
         THEN /\ last' = [scheme |-> scheme, outcome |-> "InvalidProtocol"]
              /\ UNCHANGED <<handlers, registrations>>
         ELSE /\ handlers' = MapSet(handlers, n, handler)
              /\ registrations' = Append(registrations, [key |-> n, fn |-> handler])
              /\ last' = [scheme |-> scheme, outcome |-> "this"]
  /\ UNCHANGED <<blacklist, calls>>

\* a protocol() that stores the handler before it tests the scheme
protocolStoresFirst(scheme, handler) ==
  /\ LET n == normalize(scheme)
     IN  /\ handlers' = MapSet(handlers, n, handler)
         /\ IF n \in Range(blacklist)
            THEN /\ last' = [scheme |-> scheme, outcome |-> "BlacklistedProtocol"]
                 /\ UNCHANGED registrations
            ELSE IF ~isValidScheme(n)
            THEN /\ last' = [scheme |-> scheme, outcome |-> "InvalidProtocol"]
                 /\ UNCHANGED registrations
            ELSE /\ registrations' = Append(registrations, [key |-> n, fn |-> handler])
                 /\ last' = [scheme |-> scheme, outcome |-> "this"]
  /\ UNCHANGED <<blacklist, calls>>

protocol(scheme, handler) ==
  /\ LET n == normalize(scheme)
     IN  IF n \in Range(blacklist)
         THEN /\ last' = [scheme |-> scheme, outcome |-> "BlacklistedProtocol"]
              /\ UNCHANGED <<handlers, registrations>>
         ELSE IF ~isValidScheme(n)
         THEN /\ last' = [scheme |-> scheme, outcome |-> "InvalidProtocol"]
              /\ UNCHANGED <<handlers, registrations>>
         ELSE /\ handlers' = MapSet(handlers, n, handler)
              /\ registrations' = Append(registrations, [key |-> n, fn |-> handler])
              /\ last' = [scheme |-> scheme, outcome |-> "this"]
  /\ UNCHANGED <<blacklist, calls>>

(***************************************************************************)
(* resolve(url), called directly.                                          *)
(***************************************************************************)
resolve(url) ==
  /\ \E mode \in Modes :
       calls' = Append(calls,
                       resolveCall("resolve", Undefined, url, mode, NoResponse("none")))
  /\ UNCHANGED <<blacklist, handlers, last, registrations>>

(***************************************************************************)
(* The promise a resolver returned settles.                                *)
(***************************************************************************)
\* a resolve() that looked its handler up again, and invoked it, once the
\* first promise settled
resolverSettlesLooksUpAgain(i) ==
  /\ calls[i].st = "pending"
  /\ LET handler == handlerFor(calls[i].url.s)
     IN  calls' = [calls EXCEPT ![i] =
           IF handler = "undefined"
           THEN [@ EXCEPT !.st = "fulfilled", !.val = UndefinedValue]
           ELSE IF calls[i].mode = "async"
           THEN [@ EXCEPT !.fn = handler, !.invoked = @ + 1, !.st = "fulfilled",
                          !.val = Produced(handler, calls[i].url.s)]
           ELSE [@ EXCEPT !.fn = handler, !.invoked = @ + 1, !.st = "rejected",
                          !.val = Failure(handler, calls[i].url.s)]]
  /\ UNCHANGED <<blacklist, handlers, last, registrations>>

resolverSettles(i) ==
  /\ calls[i].st = "pending"
  /\ calls' = [calls EXCEPT ![i] =
       IF calls[i].mode = "async"
       THEN [@ EXCEPT !.st = "fulfilled", !.val = Produced(calls[i].fn, calls[i].url.s)]
       ELSE [@ EXCEPT !.st = "rejected", !.val = Failure(calls[i].fn, calls[i].url.s)]]
  /\ UNCHANGED <<blacklist, handlers, last, registrations>>

(***************************************************************************)
(* The middleware: async (req, res) => { ... }.  Its first part runs to    *)
(* the await; decodeURIComponent throwing rejects the promise of the async *)
(* function, which nothing handles.                                        *)
(***************************************************************************)
middleware(query) ==
  /\ LET d == decodeURIComponent(query)
     IN  IF d.err
         THEN calls' = Append(calls,
                [via |-> "middleware", query |-> query, url |-> Undefined,
                 fn |-> "undefined", invoked |-> 0, mode |-> "none",
                 at |-> Len(registrations), st |-> "notcalled",
                 val |-> URIError, resp |-> NoResponse("unhandledRejection")])
         ELSE \E mode \in Modes :
                calls' = Append(calls,
                  resolveCall("middleware", query, d.s, mode, NoResponse("waiting")))
  /\ UNCHANGED <<blacklist, handlers, last, registrations>>

\* the middleware after the await
middlewareResumes(i) ==
  /\ calls[i].via = "middleware"
  /\ calls[i].resp.kind = "waiting"
  /\ calls[i].st \in {"fulfilled", "rejected"}
  /\ calls' = [calls EXCEPT ![i].resp =
       IF calls[i].st = "rejected" THEN NoResponse("unhandledRejection")
       ELSE IF falsy(calls[i].val) THEN sendStatus(StatusBadRequest)
       ELSE redirect(calls[i].val)]
  /\ UNCHANGED <<blacklist, handlers, last, registrations>>

(***************************************************************************)
(* Specifications.  protocol() reads and writes the registry alone, and    *)
(* resolve() and the middleware only read it, so registration is explored  *)
(* on its own with every scheme of RawSchemes, and resolution and the      *)
(* middleware each after a setup that registers the schemes of             *)
(* SetupSchemes.                                                           *)
(***************************************************************************)
SetupSchemes == { <<"s","3",":","/","/">>, <<"g","d","r","i","v","e",":">> }

register(schemes, bound) ==
  /\ Len(registrations) < bound
  /\ \E scheme \in schemes, handler \in Resolvers : protocol(scheme, handler)

NextRegistry == register(RawSchemes, MaxRegistrations)

SpecRegistry == Init /\ [][NextRegistry]_vars

NextResolve ==
  \/ register(SetupSchemes, MaxSetup)
  \/ Len(calls) < MaxCalls /\ \E url \in URLs : resolve(url)
  \/ \E i \in DOMAIN calls : resolverSettles(i)

SpecResolve == Init /\ [][NextResolve]_vars

NextMiddleware ==
  \/ register(SetupSchemes, MaxSetup)
  \/ Len(calls) < MaxRequests /\ \E query \in Queries : middleware(query)
  \/ \E i \in DOMAIN calls : resolverSettles(i)
  \/ \E i \in DOMAIN calls : middlewareResumes(i)

SpecMiddleware == Init /\ [][NextMiddleware]_vars

\* the urls of the resolve() calls made together: two of one scheme, in two
\* letter casings, and one of another scheme
ConcurrentURLs ==
  { <<"s","3",":","/","/","d","u","m","m","y","K","e","y">>,
    <<"S","3",":","/","/","d","u","m","m","y","K","e","y">>,
    <<"g","d","r","i","v","e",":","/","/","k">> }

\* the scheme registered, again and again, while calls are suspended
ConcurrentSchemes == { <<"S","3",":","/","/">> }

\* resolve() calls made while earlier ones are suspended, and registrations
\* made between them
NextConcurrent ==
  \/ register(ConcurrentSchemes, MaxSetup)
  \/ Len(calls) < MaxConcurrent /\ \E url \in ConcurrentURLs : resolve(url)
  \/ \E i \in DOMAIN calls : resolverSettles(i)

SpecConcurrent == Init /\ [][NextConcurrent]_vars

(***************************************************************************)
(* The whole handler: every operation, in any order.                       *)
(***************************************************************************)
Next == NextRegistry \/ NextResolve \/ NextMiddleware \/ NextConcurrent

Spec == Init /\ [][Next]_vars

(***************************************************************************)
(* What the claims speak of.                                               *)
(***************************************************************************)
EqualIgnoringCase(s, t) ==
  Len(s) = Len(t) /\ \A i \in DOMAIN s : LowerChar(s[i]) = LowerChar(t[i])

\* a raw scheme that denotes http: or https: in some letter casing, with or
\* without a trailing //
DenotesDefaultBlacklisted(raw) ==
  \E b \in Range(BLACKLISTED_SCHEMES), tail \in {<<>>, <<"/", "/">>} :
    EqualIgnoringCase(raw, b \o tail)

\* the valid-scheme pattern: two or more of a-z, 0-9, +, then one colon
MatchesSchemePattern(s) ==
  /\ Len(s) >= 3
  /\ s[Len(s)] = ":"
  /\ \A i \in 1..(Len(s) - 1) : s[i] \in AsciiLower \cup AsciiDigit \cup {"+"}

\* the latest registration of key among the first n registrations,
\* "undefined" when there is none
LatestRegistered(key, n) ==
  LET at == {i \in 1..n : registrations[i].key = key}
  IN  IF at = {} THEN "undefined"
      ELSE registrations[CHOOSE i \in at : \A j \in at : j <= i].fn

\* the keys of the registrations, each at its first occurrence
RECURSIVE FirstOccurrences(_)
FirstOccurrences(keys) ==
  IF keys = <<>> THEN <<>>
  ELSE LET front == FirstOccurrences(SubSeq(keys, 1, Len(keys) - 1))
           k == keys[Len(keys)]
       IN  IF k \in Range(front) THEN front ELSE Append(front, k)

RegisteredFor(c) ==
  LET S == getProtocol(c.url.s)
  IN  IF S.def THEN LatestRegistered(S.s, c.at) ELSE "undefined"

\* C8: the registry holds at most one resolver per normalized scheme, the one
\* of the latest registration of that scheme, and a resolve() call invokes
\* the latest resolver registered for its url's scheme before the call and
\* no earlier one.
C8_LatestRegistrationWins ==
  /\ \A i, j \in DOMAIN handlers : handlers[i].key = handlers[j].key => i = j
  /\ \A n \in DOMAIN registrations :
       MapGet(handlers, registrations[n].key)
         = LatestRegistered(registrations[n].key, Len(registrations))
  /\ \A i \in DOMAIN calls : calls[i].via = "resolve" => calls[i].fn = RegisteredFor(calls[i])

\* C8 happens: a scheme was registered twice with different resolvers and a
\* later resolve() of a url of that scheme invoked the second
C8_Witness ==
  \E i \in DOMAIN calls :
    /\ calls[i].at >= 2
    /\ registrations[1].key = registrations[2].key
    /\ registrations[1].fn # registrations[2].fn
    /\ getProtocol(calls[i].url.s) = Str(registrations[2].key)
    /\ calls[i].fn = registrations[2].fn
    /\ calls[i].st = "fulfilled"

\* C9: a successful protocol() returns the handler, and protocols lists the
\* normalized schemes registered so far, each once, in the order of their
\* first registration.
C9_ProtocolsInFirstRegistrationOrder ==
  /\ protocols = FirstOccurrences(MapKeys(registrations))
  /\ last.outcome = "this" =>
       /\ registrations # <<>>
       /\ registrations[Len(registrations)].key = normalize(last.scheme)

\* C9 happens: after three chained registrations, the third of the first
\* scheme again, protocols lists the two schemes in their first order
C9_Witness ==
  /\ Len(registrations) = 3
  /\ registrations[1].key # registrations[2].key
  /\ registrations[3].key = registrations[1].key
  /\ registrations[3].fn # registrations[1].fn
  /\ protocols = <<registrations[1].key, registrations[2].key>>
  /\ last.outcome = "this"

(***************************************************************************)
(* Resolution.                                                             *)
(***************************************************************************)
\* C3: resolve(u) of a url whose scheme has a registered resolver f invokes f
\* with u, and the promise is fulfilled with the value f produces for u, at
\* once when f returns it and once f's promise is fulfilled when f is
\* asynchronous.
C3_RegisteredResolverResult ==
  \A i \in DOMAIN calls :
    LET c == calls[i]
        f == RegisteredFor(c)
    IN  (c.via = "resolve" /\ f # "undefined") =>
          /\ c.fn = f
          /\ c.mode = "sync" => (c.st = "fulfilled" /\ c.val = Produced(f, c.url.s))
          /\ c.mode = "absent" => (c.st = "fulfilled" /\ c.val = UndefinedValue)
          /\ c.mode = "async" =>
               \/ c.st = "pending"
               \/ c.st = "fulfilled" /\ c.val = Produced(f, c.url.s)

\* C3 happens: an asynchronous resolver's promise was fulfilled and the call
\* holds its value
C3_Witness ==
  \E i \in DOMAIN calls :
    /\ calls[i].via = "resolve"
    /\ calls[i].fn # "undefined"
    /\ calls[i].mode = "async"
    /\ calls[i].st = "fulfilled"
    /\ calls[i].val = Produced(calls[i].fn, calls[i].url.s)

\* the url string itself, as a promise's value
TheString(url) == [kind |-> "string", by |-> "", of |-> url]

\* the protocol error of the given kind
ProtocolError(code) == [kind |-> "error", by |-> "ProtocolError", of |-> <<code>>]

\* a protocol-relative url: a leading // once surrounding white space is ignored
IsProtocolRelative(url) == startsWith(trim(url), <<"/", "/">>)

\* the scheme extracted from a url: a leading token of letters, digits, +, .
\* and - that a colon ends, lowercased, Undefined when there is none
RECURSIVE tokenEnd(_, _)
tokenEnd(s, i) ==
  IF i > Len(s) THEN 0
  ELSE IF s[i] = ":" THEN (IF i > 1 THEN i ELSE 0)
  ELSE IF s[i] \in AsciiAlpha \cup AsciiDigit \cup {"+", ".", "-"} THEN tokenEnd(s, i + 1)
  ELSE 0

ExtractedScheme(url) ==
  LET e == tokenEnd(url, 1)
  IN  IF e = 0 THEN Undefined ELSE Str(toLowerCase(SubSeq(url, 1, e)))

\* the blacklist the claims speak of: http:, https:, file: and the caller's
ClaimedBlacklist == Range(blacklist) \cup {<<"f", "i", "l", "e", ":">>}

\* no resolver was registered for scheme S when call c was made
Unregistered(S, c) == LatestRegistered(S, c.at) = "undefined"

\* C4: resolve(url) of a url whose scheme can be extracted, is not in the
\* blacklist and has no registered resolver fails with UnknownProtocol.
C4_UnknownProtocolFails ==
  \A i \in DOMAIN calls :
    LET c == calls[i]
        S == ExtractedScheme(c.url.s)
    IN  (/\ c.via = "resolve"
         /\ S.def
         /\ S.s \notin ClaimedBlacklist
         /\ Unregistered(S.s, c))
        => (c.st = "rejected" /\ c.val = ProtocolError("UnknownProtocol"))

\* C5: resolve(url) of a url that is not protocol-relative and has no
\* extractable scheme returns a promise that is rejected with InvalidProtocol.
C5_InvalidProtocolFails ==
  \A i \in DOMAIN calls :
    LET c == calls[i]
    IN  (/\ c.via = "resolve"
         /\ ~IsProtocolRelative(c.url.s)
         /\ ~ExtractedScheme(c.url.s).def)
        => (c.st = "rejected" /\ c.val = ProtocolError("InvalidProtocol"))

\* C6: resolve(url) of a url whose scheme is blacklisted and has no registered
\* resolver is fulfilled with url itself, and no resolver is invoked.
C6_BlacklistedPassesThrough ==
  \A i \in DOMAIN calls :
    LET c == calls[i]
        S == ExtractedScheme(c.url.s)
    IN  (/\ c.via = "resolve"
         /\ S.def
         /\ S.s \in ClaimedBlacklist
         /\ Unregistered(S.s, c))
        => (c.st = "fulfilled" /\ c.val = TheString(c.url.s) /\ c.fn = "undefined")

\* C7: resolve(url) of a protocol-relative url is fulfilled with url itself,
\* and no resolver is invoked, whatever is registered.
C7_ProtocolRelativePassesThrough ==
  \A i \in DOMAIN calls :
    LET c == calls[i]
    IN  (c.via = "resolve" /\ IsProtocolRelative(c.url.s))
        => (c.st = "fulfilled" /\ c.val = TheString(c.url.s) /\ c.fn = "undefined")

(***************************************************************************)
(* The middleware.                                                         *)
(***************************************************************************)
\* the kind of protocol error the resolution of call c's url is to fail
\* with: "InvalidProtocol", "UnknownProtocol", or "none"
ClassifiedError(c) ==
  LET S == ExtractedScheme(c.url.s)
  IN  IF IsProtocolRelative(c.url.s) THEN "none"
      ELSE IF ~S.def THEN "InvalidProtocol"
      ELSE IF S.s \notin ClaimedBlacklist /\ Unregistered(S.s, c) THEN "UnknownProtocol"
      ELSE "none"

\* C10: an answered request that carries the parameter is redirected to the
\* target string its resolution gave, and is answered 400 with a body
\* { error: { name, code, message } } that names the error when its url has
\* an invalid or unknown protocol.
C10_RedirectOrStructured400 ==
  \A i \in DOMAIN calls :
    LET c == calls[i]
    IN  (c.via = "middleware" /\ c.query.def /\ c.url.def /\ c.resp.kind # "waiting") =>
          /\ (c.st = "fulfilled" /\ c.val.kind = "string") => c.resp = redirect(c.val)
          /\ ClassifiedError(c) # "none" =>
               /\ c.resp.status = StatusBadRequest
               /\ c.resp.body.errorName = "ProtocolError"
               /\ c.resp.body.errorCode = ClassifiedError(c)


\* C11: an answered request whose url is protocol-relative, or has a
\* blacklisted scheme with no registered resolver, is redirected to that url
\* itself and is not answered 400.
C11_MiddlewarePassesThrough ==
  \A i \in DOMAIN calls :
    LET c == calls[i]
        S == ExtractedScheme(c.url.s)
    IN  (/\ c.via = "middleware" /\ c.query.def /\ c.url.def
         /\ c.resp.kind # "waiting"
         /\ \/ IsProtocolRelative(c.url.s)
            \/ S.def /\ S.s \in ClaimedBlacklist /\ Unregistered(S.s, c))
        => c.resp = redirect(TheString(c.url.s))

\* a request of the middleware failed with an error that is not a classified
\* protocol error: the query did not decode, or the resolver threw or rejected
UnclassifiedFailure(c) ==
  /\ c.via = "middleware"
  /\ c.val.kind = "error"
  /\ \/ c.st = "notcalled"
     \/ c.st = "rejected" /\ c.resp.kind # "waiting"

\* C12: a request that failed with an unclassified error is handed to the
\* framework's error path, next(err); it is neither dropped nor answered with
\* 400 or a redirect.
C12_UnclassifiedFailureHandedToNext ==
  \A i \in DOMAIN calls :
    UnclassifiedFailure(calls[i]) => calls[i].resp.kind = "next"

(***************************************************************************)
(* Failing resolvers.                                                      *)
(***************************************************************************)
\* C13: when the resolver registered for the url's scheme throws an error, or
\* returns a promise that is rejected with one, resolve(url) still returns a
\* promise, and that promise is rejected with the same error; it is never
\* fulfilled.
C13_ResolverFailurePropagated ==
  \A i \in DOMAIN calls :
    LET c == calls[i]
        f == RegisteredFor(c)
    IN  (c.via = "resolve" /\ f # "undefined") =>
          /\ c.st \in {"pending", "fulfilled", "rejected"}
          /\ c.mode = "throw" => (c.st = "rejected" /\ c.val = Failure(f, c.url.s))
          /\ c.mode = "reject" =>
               \/ c.st = "pending"
               \/ c.st = "rejected" /\ c.val = Failure(f, c.url.s)

\* C13 happens: one resolver threw and the promise of resolve is rejected
\* with its error
C13_Witness ==
  \E i \in DOMAIN calls :
    /\ calls[i].via = "resolve"
    /\ calls[i].fn # "undefined"
    /\ calls[i].mode = "throw"
    /\ calls[i].st = "rejected"
    /\ calls[i].val = Failure(calls[i].fn, calls[i].url.s)

(***************************************************************************)
(* Calls in flight together.                                               *)
(***************************************************************************)
\* what a call that invoked resolver fn comes to when it runs alone
OutcomeAlone(fn, url, mode) ==
  IF fn = "undefined" THEN [st |-> "fulfilled", val |-> UndefinedValue]
  ELSE IF mode \in {"sync", "async"} THEN [st |-> "fulfilled", val |-> Produced(fn, url)]
  ELSE IF mode = "absent" THEN [st |-> "fulfilled", val |-> UndefinedValue]
  ELSE IF mode = "empty" THEN [st |-> "fulfilled", val |-> EmptyString]
  ELSE [st |-> "rejected", val |-> Failure(fn, url)]

\* call c invoked the resolver registered for its url's scheme when it was
\* made, once, and no other; it is suspended or has the outcome it has alone
CallStandsAlone(c) ==
  /\ c.fn = RegisteredFor(c)
  /\ c.invoked = (IF c.fn = "undefined" THEN 0 ELSE 1)
  /\ \/ c.st = "pending" /\ c.mode \in {"async", "reject"}
     \/ [st |-> c.st, val |-> c.val] = OutcomeAlone(c.fn, c.url.s, c.mode)

\* C14: whatever the interleaving of resolve() calls, of the settling of
\* their resolvers' promises and of registrations, every call invokes the
\* resolver registered for its url's scheme when it was made, exactly once,
\* and ends as it would alone; no step changes another call's resolver, and
\* no step changes a settled call.
C14_ConcurrentCallsIndependent ==
  [][/\ \A i \in DOMAIN calls' : CallStandsAlone(calls'[i])
     /\ \A i \in DOMAIN calls :
          /\ i \in DOMAIN calls'
          /\ calls'[i].fn = calls[i].fn
          /\ calls'[i].url = calls[i].url
          /\ calls'[i].at = calls[i].at
          /\ calls'[i].invoked = calls[i].invoked
          /\ calls[i].st # "pending" => calls'[i] = calls[i]]_vars

\* C14 happens: two calls of one scheme were suspended together, the scheme
\* was registered again with another resolver meanwhile, and the first call
\* settled with the resolver it had invoked while the second is suspended
C14_Witness ==
  /\ Len(calls) = 2
  /\ calls[1].st \in {"fulfilled", "rejected"}
  /\ calls[1].mode \in {"async", "reject"}
  /\ calls[2].st = "pending"
  /\ getProtocol(calls[1].url.s) = getProtocol(calls[2].url.s)
  /\ calls[1].fn # calls[2].fn
  /\ calls[1].fn # handlerFor(calls[1].url.s)
  /\ calls[1].val.by = calls[1].fn

(***************************************************************************)
(* The registry across registrations.                                      *)
(***************************************************************************)
\* C15: after any sequence of protocol() calls, every key of the registry,
\* and so every member of protocols, is its own normalized form, lowercase
\* with one colon, at its end, and no //, matches the valid-scheme pattern
\* and is not in the handler's blacklist.
C15_RegistryKeysNormalizedValidAllowed ==
  /\ Range(protocols) = {handlers[i].key : i \in DOMAIN handlers}
  /\ \A i \in DOMAIN handlers :
       LET key == handlers[i].key
       IN  /\ key = normalize(key)
           /\ key = toLowerCase(key)
           /\ {j \in DOMAIN key : key[j] = ":"} = {Len(key)}
           /\ \A j \in DOMAIN key : key[j] # "/"
           /\ MatchesSchemePattern(key)
           /\ key \notin Range(blacklist)

\* C15 happens: a scheme given in upper case was registered, under its
\* normalized form, on a handler with a blacklist of its own that holds
\* another scheme too
C15_Witness ==
  /\ last.outcome = "this"
  /\ last.scheme # toLowerCase(last.scheme)
  /\ MapHas(handlers, normalize(last.scheme))
  /\ Len(handlers) >= 2
  /\ Len(blacklist) > Len(BLACKLISTED_SCHEMES)

(***************************************************************************)
(* Letter case at resolution.                                              *)
(***************************************************************************)
\* C16: the scheme of a url is matched whatever its letter case: resolve of a
\* url whose scheme, lowercased, has a registered resolver invokes that
\* resolver, and resolve of a url whose scheme, lowercased, is blacklisted
\* and has no resolver is fulfilled with the url itself.
C16_SchemeMatchedIgnoringCase ==
  \A i \in DOMAIN calls :
    LET c == calls[i]
        S == ExtractedScheme(c.url.s)
    IN  (c.via = "resolve" /\ S.def /\ ~startsWith(c.url.s, S.s)) =>
          /\ ~Unregistered(S.s, c) => c.fn = LatestRegistered(S.s, c.at)
          /\ (S.s \in ClaimedBlacklist /\ Unregistered(S.s, c))
               => (c.st = "fulfilled" /\ c.val = TheString(c.url.s))

(***************************************************************************)
(* Failed registrations.                                                   *)
(***************************************************************************)
\* the schemes resolve() looks up for the urls it is given
SchemesOfURLs == {getProtocol(url).s : url \in {u \in URLs : getProtocol(u).def}}

\* C17: a protocol() call that fails, with InvalidProtocol or with
\* BlacklistedProtocol, leaves the registry with the same schemes, resolvers
\* and order, leaves the blacklist as it was, and leaves the resolver that
\* resolve() finds for every url as it was.
C17_FailedRegistrationChangesNothing ==
  [][last'.outcome \in {"InvalidProtocol", "BlacklistedProtocol"}
       => /\ handlers' = handlers
          /\ protocols' = protocols
          /\ blacklist' = blacklist
          /\ \A S \in SchemesOfURLs :
               MapGet(handlers', S) = MapGet(handlers, S)]_vars

\* C17 happens: on a handler with the default blacklist and two registered
\* schemes, a protocol() call failed with InvalidProtocol
C17_Witness ==
  /\ last.outcome = "InvalidProtocol"
  /\ Len(handlers) >= 2
  /\ blacklist = BLACKLISTED_SCHEMES
  /\ \E S \in SchemesOfURLs : MapGet(handlers, S) # "undefined"

(***************************************************************************)
(* What a request is answered with.                                        *)
(***************************************************************************)
\* C18: the middleware redirects only to a non-empty string; a request whose
\* resolution is fulfilled with nothing, or with the empty string, is
\* answered 400 and not redirected; and every request the middleware is
\* done with got a redirect, a 400 or the framework's error path.
C18_RedirectOnlyWithTarget ==
  \A i \in DOMAIN calls :
    LET c == calls[i]
    IN  (c.via = "middleware" /\ c.resp.kind # "waiting") =>
          /\ c.resp.kind = "redirect" =>
               (c.resp.location.kind = "string" /\ c.resp.location # EmptyString)
          /\ (c.st = "fulfilled" /\ falsy(c.val)) => c.resp = sendStatus(StatusBadRequest)
          /\ c.resp.kind \in {"redirect", "sendStatus", "next"}

====
